---- MODULE Spec2Model ----
(***************************************************************************)
(* Price tracker: the background fetcher (Server.fetchData / Server.notify)*)
(* refreshing the Items of one site, the foreground item handlers that     *)
(* merge into the same Items, and the MongoDB collections they share       *)
(* (items, item_histories, users).                                         *)
(***************************************************************************)
EXTENDS Integers, Sequences, FiniteSets, TLC

\* ---------------------------------------------------------------- bounds
MaxPrice == 3       \* fetched prices are 1..MaxPrice
MaxStock == 1       \* fetched stocks are 0..MaxStock
MaxTicks == 2       \* ticks of the site's ticker that are explored
MaxRequests == 1    \* foreground requests that are explored
NumItems == 2       \* Items in the store; Item 1 belongs to the fetched site
NumUsers == 2       \* Users in the store
MaxAdds == 2
Interval == 30            \* the interval of the tickers, in seconds
MaxBatch == 2             \* Items of one site
JitterStep == 5           \* the values of rand.Intn(10) taken: its multiples        \* concurrent itemAdd / itemUpdate requests that are explored

Prices == 1..MaxPrice
Stocks == 0..MaxStock
ItemIDs == 1..NumItems
UserIDs == 1..NumUsers
Thresholds == 1..MaxPrice

TrackedItemsLimit == 25   \* itemAdd: len(uc.user.TrackedItems) >= 25
SleepTokopedia == 3       \* FetchDataInInterval: time.Sleep before the Tokopedia loop
SleepBlibli == 5          \* FetchDataInInterval: time.Sleep before the Blibli loop
ItemSleep == 10           \* fetchData: time.Sleep(10 * time.Second)
MaxJitter == 9            \* fetchData: rand.Intn(10) seconds
TrackedItemsSlice == 25   \* UserTrackedItemUpdateOrAdd: $slice

\* The largest NotificationCount the earlier shouldNotify still notified at.
NotificationCountCap == 5

Site(id) == IF id = 1 THEN "Shopee" ELSE "Tokopedia"
NoToken == <<>>
NoItem == [id |-> 0]
NoHistory == [price |-> 0]
NotNotified == [price |-> 0, ids |-> {}]
NoRemoval == [failed |-> FALSE, status |-> 0, panicked |-> FALSE]
NoMerges == [inserts |-> 0, fetcher |-> 0, foreground |-> 0, unrecorded |-> 0]

\* ---------------------------------------------------------------- state
VARIABLES
    items,            \* collection items: ItemID -> Item document
    histories,        \* collection item_histories: ItemID -> records in insertion order
    users,            \* collection users: UserID -> [devices, trackedItems]
    now,              \* the clock read by time.Now()
    ticks,            \* ticks consumed from tickerShopee
    pc,               \* position of the site's goroutine in fetchData / notify
    is,               \* fetchData: the Items retrieved for this tick
    k,                \* fetchData: index in is of the Item being processed
    ecommerceItem,    \* fetchData: the Item returned by the provider
    updatedI,         \* fetchData: i merged with ecommerceItem
    lastIH,           \* fetchData: the latest ItemHistory of i
    us,               \* notify: Users found tracking the Item
    notifiedUserIDs,  \* notify: IDs submitted to the counter increment
    fcmTokens,        \* notify: RegistrationIDs of the FCMSendRequest
    fg,               \* the foreground request in flight
    requests,         \* foreground requests started
    merged,           \* history: ItemID -> prices merged into the stored Item
    notifiedFor,      \* history: ItemID -> the price and Users of the last dispatch, while no other price is fetched
    ev,               \* history: what the processing of the current Item has done
    merges,           \* history: ItemID -> the merges (UpdateWith) applied to the Item
    adds,             \* the itemAdd and itemUpdate requests in flight or answered
    args,             \* the arguments of a call of shouldNotify
    result,           \* what the call returned
    main,             \* FetchDataInInterval: loops started and the rest of its time.Sleep
    tickers,          \* site -> seconds to the next tick of its Ticker and the ticks in its channel
    loops,            \* site -> position of its goroutine, Items left, rest of its time.Sleep
    cancelled,        \* the context given to FetchDataInInterval is cancelled
    removal           \* how the last itemRemove request ended

schedVars == <<pc, is, k, ecommerceItem, updatedI, lastIH, us, notifiedUserIDs, fcmTokens>>
storeVars == <<items, histories, users>>
callVars == <<args, result>>
timerVars == <<main, tickers, loops, cancelled>>
vars == <<items, histories, users, now, ticks, pc, is, k, ecommerceItem, updatedI, lastIH,
          us, notifiedUserIDs, fcmTokens, fg, requests, merged, notifiedFor, ev, merges, adds,
          args, result, main, tickers, loops, cancelled, removal>>

\* ---------------------------------------------------------------- model.Item
\* Item.UpdateWith(new), with t the value of time.Now().
UpdateWith_KeepsExtrema(i, new, t) ==
    [i EXCEPT !.price = new.price,
              !.previous = IF i.price # new.price THEN i.price ELSE @,
              !.changedAt = IF i.price # new.price THEN t ELSE @,
              !.stock = new.stock,
              !.updatedAt = t]

UpdateWith_AlwaysStamps(i, new, t) ==
    [i EXCEPT !.previous = IF i.price # new.price THEN i.price ELSE @,
              !.price = new.price,
              !.changedAt = t,
              !.highest = IF i.highest < new.price THEN new.price ELSE @,
              !.lowest = IF i.lowest > new.price THEN new.price ELSE @,
              !.stock = new.stock,
              !.updatedAt = t]

UpdateWith(i, new, t) ==
    LET priced ==
            IF i.price # new.price
            THEN [i EXCEPT !.previous = i.price,
                           !.price = new.price,
                           !.changedAt = t,
                           !.highest = IF i.highest < new.price THEN new.price ELSE @,
                           !.lowest = IF i.lowest > new.price THEN new.price ELSE @]
            ELSE i
    IN [priced EXCEPT !.stock = new.stock, !.updatedAt = t]

\* The Item itemAdd inserts for a first fetch: both extrema are the first price.
NewItem(id, price, stock, t) ==
    [id |-> id, site |-> Site(id), price |-> price, stock |-> stock,
     highest |-> price, lowest |-> price, previous |-> 0,
     changedAt |-> 0, updatedAt |-> t]

\* What a provider returns for the listing of Item id.
Fetched(id, price, stock) ==
    [id |-> 0, site |-> Site(id), price |-> price, stock |-> stock,
     highest |-> 0, lowest |-> 0, previous |-> 0, changedAt |-> 0, updatedAt |-> 0]

\* ---------------------------------------------------------------- eligibility
shouldNotify_Strict(ti, itemPrice, itemStock) ==
    IF ti.notificationEnabled /\ itemPrice < ti.priceLowerThreshold /\ itemStock > 0
    THEN TRUE ELSE FALSE

shouldNotify(ti, itemPrice, itemStock) ==
    IF ti.notificationEnabled /\ itemPrice <= ti.priceLowerThreshold /\ itemStock > 0
    THEN TRUE ELSE FALSE

\* ---------------------------------------------------------------- store: items
\* The Items of one site, in _id order.
ItemsFindWithSite(site) ==
    LET ids == {id \in ItemIDs : items[id] # NoItem /\ items[id].site = site}
        F[n \in 0..NumItems] ==
            IF n = 0 THEN <<>>
            ELSE IF n \in ids THEN Append(F[n - 1], items[n]) ELSE F[n - 1]
    IN F[NumItems]

ItemUpdate_Upsert(i, t) ==
    [id \in ItemIDs |->
        IF id = i.id THEN [i EXCEPT !.updatedAt = t]
        ELSE IF items[id] = NoItem THEN NewItem(id, i.price, i.stock, t)
        ELSE items[id]]

\* ItemUpdate: ReplaceOne of the whole document, filtered by _id alone.
ItemUpdate(i, t) == [items EXCEPT ![i.id] = [i EXCEPT !.updatedAt = t]]

\* ItemInsert: InsertOne under the unique index on (site, merchant_id,
\* product_id); FALSE stands for its duplicate key error.
ItemInsertAccepted(id) == items[id] = NoItem

\* ItemFindExisting: the stored Item with the identity of the fetched one.
ItemFindExisting(id) == items[id]

\* ---------------------------------------------------------------- store: item_histories
ItemHistory(id, e, t) == [itemID |-> id, price |-> e.price, stock |-> e.stock, ts |-> t]

ItemHistoryInsert_Twice(ih) == [histories EXCEPT ![ih.itemID] = Append(Append(@, ih), ih)]

ItemHistoryInsert(ih) == [histories EXCEPT ![ih.itemID] = Append(@, ih)]

\* ItemHistoryFindLatest: the record sorted first by ts descending; NoHistory
\* stands for mongo.ErrNoDocuments.
ItemHistoryFindLatest(id) ==
    IF Len(histories[id]) = 0 THEN NoHistory ELSE histories[id][Len(histories[id])]

\* ---------------------------------------------------------------- store: users
Matches(tis, itemID) == {j \in 1..Len(tis) : tis[j].itemID = itemID}

\* The array element the positional operator $ stands for: the first match.
FirstMatch(tis, itemID) ==
    CHOOSE j \in Matches(tis, itemID) : \A j2 \in Matches(tis, itemID) : j <= j2

\* UsersDeviceFCMTokensFindByTrackedItem: the Users with a TrackedItem of
\* itemID, projected to that TrackedItem and to the devices' tokens.
UsersDeviceFCMTokensFindByTrackedItem(itemID) ==
    LET F[n \in 0..NumUsers] ==
            IF n = 0 THEN <<>>
            ELSE IF Matches(users[n].trackedItems, itemID) # {}
                 THEN Append(F[n - 1],
                        [id |-> n,
                         trackedItems |-> <<users[n].trackedItems[
                                              FirstMatch(users[n].trackedItems, itemID)]>>,
                         devices |-> users[n].devices])
                 ELSE F[n - 1]
    IN F[NumUsers]

\* The documents UpdateMany matches: _id in userIDs and a TrackedItem of itemID.
IncrementMatched(userIDs, itemID) ==
    {u \in UserIDs : /\ \E j \in 1..Len(userIDs) : userIDs[j] = u
                     /\ Matches(users[u].trackedItems, itemID) # {}}

IncrementTrackedItem_CountOnly(ti, t) ==
    [ti EXCEPT !.lastNotifiedAt = t,
               !.updatedAt = t,
               !.notificationCount = @ + 1]

IncrementTrackedItem(ti, t) ==
    [ti EXCEPT !.lastNotifiedAt = t,
               !.updatedAt = t,
               !.notificationCount = @ + 1,
               !.notificationCountTotal = @ + 1]

UserTrackedItemNotificationCountIncrement_AllTrackers(userIDs, itemID, t) ==
    [u \in UserIDs |->
        IF Matches(users[u].trackedItems, itemID) # {}
        THEN [users[u] EXCEPT !.trackedItems[FirstMatch(users[u].trackedItems, itemID)] =
                                  IncrementTrackedItem(@, t)]
        ELSE users[u]]

\* UserTrackedItemNotificationCountIncrement: the users collection after the
\* UpdateMany; its ModifiedCount is Cardinality(IncrementMatched(..)).
UserTrackedItemNotificationCountIncrement(userIDs, itemID, t) ==
    [u \in UserIDs |->
        IF u \in IncrementMatched(userIDs, itemID)
        THEN [users[u] EXCEPT !.trackedItems[FirstMatch(users[u].trackedItems, itemID)] =
                                  IncrementTrackedItem(@, t)]
        ELSE users[u]]

\* $sort: {updated_at: -1} of a $push: ti goes behind the elements of sorted
\* that are more recent than it.
InsertByUpdatedAt(sorted, ti) ==
    LET ahead == {j \in 1..Len(sorted) : sorted[j].updatedAt > ti.updatedAt}
        n == Cardinality(ahead)
    IN SubSeq(sorted, 1, n) \o <<ti>> \o SubSeq(sorted, n + 1, Len(sorted))

SortByUpdatedAt(tis) ==
    LET F[n \in 0..Len(tis)] ==
            IF n = 0 THEN <<>> ELSE InsertByUpdatedAt(F[n - 1], tis[Len(tis) + 1 - n])
    IN F[Len(tis)]

Slice(tis, n) == SubSeq(tis, 1, IF Len(tis) < n THEN Len(tis) ELSE n)

\* UserTrackedItemUpdateOrAdd, the first UpdateOne: the fields $set on the
\* TrackedItem of ti.ItemID, the first one matched.
UpdateMatched_SetsLastNotified(tis, ti, t) ==
    [tis EXCEPT ![FirstMatch(tis, ti.itemID)] =
        [@ EXCEPT !.priceLowerThreshold = ti.priceLowerThreshold,
                  !.notificationEnabled = ti.notificationEnabled,
                  !.notificationCount = ti.notificationCount,
                  !.lastNotifiedAt = ti.lastNotifiedAt,
                  !.updatedAt = t]]

UpdateMatched(tis, ti, t) ==
    [tis EXCEPT ![FirstMatch(tis, ti.itemID)] =
        [@ EXCEPT !.priceLowerThreshold = ti.priceLowerThreshold,
                  !.notificationEnabled = ti.notificationEnabled,
                  !.notificationCount = ti.notificationCount,
                  !.updatedAt = t]]

\* UserTrackedItemUpdateOrAdd, the $push after no TrackedItem matched: ti at
\* position 0, sorted by updated_at and cut to TrackedItemsSlice.
PushTrackedItem_NoSlice(tis, ti, t) ==
    SortByUpdatedAt(<<[ti EXCEPT !.updatedAt = t]>> \o tis)

PushTrackedItem(tis, ti, t) ==
    Slice(SortByUpdatedAt(<<[ti EXCEPT !.updatedAt = t]>> \o tis), TrackedItemsSlice)

\* UserTrackedItemRemove: $pull of every TrackedItem of itemID.
UserTrackedItemRemove(userID, itemID) ==
    [users EXCEPT ![userID].trackedItems =
        SelectSeq(@, LAMBDA ti : ti.itemID # itemID)]

\* ---------------------------------------------------------------- notify
Tokens(devices) == SelectSeq(devices, LAMBDA tok : tok # NoToken)

Eligible(u, price, stock) ==
    Len(u.trackedItems) > 0 /\ shouldNotify(u.trackedItems[1], price, stock)

NotifyBatch_AllEligible(found, price, stock) ==
    LET F[n \in 0..Len(found)] ==
            IF n = 0 THEN [ids |-> <<>>, tokens |-> <<>>]
            ELSE IF Eligible(found[n], price, stock)
                 THEN [ids |-> Append(F[n - 1].ids, found[n].id),
                       tokens |-> F[n - 1].tokens \o Tokens(found[n].devices)]
                 ELSE F[n - 1]
    IN F[Len(found)]

NotifyBatch_PerDevice(found, price, stock) ==
    LET F[n \in 0..Len(found)] ==
            IF n = 0 THEN [ids |-> <<>>, tokens |-> <<>>]
            ELSE IF Eligible(found[n], price, stock)
                 THEN [ids |-> F[n - 1].ids \o
                                 [j \in 1..Len(Tokens(found[n].devices)) |-> found[n].id],
                       tokens |-> F[n - 1].tokens \o Tokens(found[n].devices)]
                 ELSE F[n - 1]
    IN F[Len(found)]

NotifyBatch_FirstToken(found, price, stock) ==
    LET F[n \in 0..Len(found)] ==
            IF n = 0 THEN [ids |-> <<>>, tokens |-> <<>>]
            ELSE IF Eligible(found[n], price, stock) /\ Len(Tokens(found[n].devices)) > 0
                 THEN [ids |-> Append(F[n - 1].ids, found[n].id),
                       tokens |-> Append(F[n - 1].tokens, Tokens(found[n].devices)[1])]
                 ELSE F[n - 1]
    IN F[Len(found)]

\* notify, the loop over us: the tokens of the eligible Users' devices and the
\* IDs of the eligible Users that have at least one token.
NotifyBatch(found, price, stock) ==
    LET F[n \in 0..Len(found)] ==
            IF n = 0 THEN [ids |-> <<>>, tokens |-> <<>>]
            ELSE IF Eligible(found[n], price, stock)
                 THEN [ids |-> IF Len(Tokens(found[n].devices)) > 0
                               THEN Append(F[n - 1].ids, found[n].id)
                               ELSE F[n - 1].ids,
                       tokens |-> F[n - 1].tokens \o Tokens(found[n].devices)]
                 ELSE F[n - 1]
    IN F[Len(found)]

AfterBatch_Always(ids) == "send"

\* notify after the loop over us: without a User to notify it returns.
AfterBatch(ids) == IF Len(ids) = 0 THEN "next" ELSE "send"

\* notify after FCMSendNotification returned: an error ends notify.
AfterSend_IgnoresError(failed) == "increment"

AfterSend(failed) == IF failed THEN "next" ELSE "increment"

AfterIncrement_Retries(updatedUserCount, notified) ==
    IF updatedUserCount # notified THEN "increment" ELSE "next"

\* notify after the increment returned without error: a count of updated
\* Users other than len(notifiedUserIDs) is logged, and notify returns.
AfterIncrement(updatedUserCount, notified) == "next"

\* ---------------------------------------------------------------- fetchData
Gate_NoStockCheck(e, last) ==
    IF e.price # last.price THEN "notify" ELSE "next"

Gate_Always(e, last) ==
    IF e.stock = 0 THEN "next" ELSE "notify"

\* fetchData after the ItemHistory insert: notify only for a price other than
\* the latest ItemHistory's and a stock other than 0.
Gate(e, last) ==
    IF e.price # last.price
    THEN IF e.stock = 0 THEN "next" ELSE "notify"
    ELSE "next"

AfterInsert_SkipsOnError(failed, e, last) ==
    IF failed THEN "next" ELSE Gate(e, last)

\* fetchData from the call of ItemHistoryInsert on: its error is logged and
\* the prices are compared all the same.
AfterInsert(failed, e, last) == Gate(e, last)

NoEvents ==
    [mergeChanged |-> FALSE, subsRead |-> FALSE, fcmCalls |-> 0, fcmFailed |-> FALSE,
     incCalls |-> 0, incOK |-> FALSE, duplicate |-> FALSE,
     fetched |-> FALSE, appended |-> 0, mismatch |-> FALSE,
     failures |-> {}, before |-> {}, removed |-> {}]

\* The events of the Item at index k of is, with the errors logged for the
\* Item before it in the same tick.
EventsOf(fetched, failures) ==
    [NoEvents EXCEPT !.fetched = fetched,
                     !.failures = failures,
                     !.before = IF k > 1 THEN ev.failures ELSE {}]

Continue_Return(p) ==
    /\ pc' = (IF p = "next" THEN "idle" ELSE p)
    /\ k' = k

\* The end of one iteration of the loop over is.
Continue(p) ==
    IF p = "next"
    THEN /\ pc' = (IF k < Len(is) THEN "fetch" ELSE "idle")
         /\ k' = (IF k < Len(is) THEN k + 1 ELSE k)
    ELSE /\ pc' = p
         /\ k' = k

\* for range tickerShopee.C: the Items of the site are read; an error of the
\* read skips the tick.
Tick ==
    /\ pc = "idle"
    /\ ticks < MaxTicks
    /\ ticks' = ticks + 1
    /\ now' = now + 1
    /\ \E failed \in BOOLEAN :
         IF failed \/ Len(ItemsFindWithSite("Shopee")) = 0
         THEN UNCHANGED <<pc, is, k>>
         ELSE /\ is' = ItemsFindWithSite("Shopee")
              /\ k' = 1
              /\ pc' = "fetch"
    /\ UNCHANGED <<callVars, timerVars, removal, adds, merges, storeVars, ecommerceItem, updatedI, lastIH, us, notifiedUserIDs,
                   fcmTokens, fg, requests, merged, notifiedFor, ev>>

\* The error of siteTypeAndCleanURL or of the provider: the Item is skipped.
FetchFailed ==
    /\ pc = "fetch"
    /\ \E cause \in {"url", "fetch"} : ev' = EventsOf(FALSE, {cause})
    /\ ecommerceItem' = NoItem
    /\ updatedI' = NoItem
    /\ lastIH' = NoHistory
    /\ us' = <<>>
    /\ notifiedUserIDs' = <<>>
    /\ fcmTokens' = <<>>
    /\ Continue("next")
    /\ UNCHANGED <<callVars, timerVars, removal, adds, merges, storeVars, now, ticks, is, fg, requests, merged, notifiedFor>>

\* The provider's answer is merged into i and the Item replaced; an error of
\* ItemUpdate is logged.
FetchItem ==
    /\ pc = "fetch"
    /\ \E price \in Prices, stock \in Stocks, failed \in BOOLEAN :
         LET i == is[k]
             e == Fetched(i.id, price, stock)
             u == UpdateWith(i, e, now)
         IN /\ ecommerceItem' = e
            /\ updatedI' = u
            /\ items' = (IF failed THEN items ELSE ItemUpdate(u, now))
            /\ merged' = (IF failed THEN merged
                          ELSE [merged EXCEPT ![i.id] = @ \cup {price}])
            /\ notifiedFor' = [notifiedFor EXCEPT ![i.id] =
                                  IF @.price = price THEN @ ELSE NotNotified]
            /\ ev' = [EventsOf(TRUE, IF failed THEN {"itemUpdate"} ELSE {})
                         EXCEPT !.mergeChanged = (i.price # price)]
            /\ merges' = [merges EXCEPT ![i.id].fetcher = @ + 1]
    /\ lastIH' = NoHistory
    /\ us' = <<>>
    /\ notifiedUserIDs' = <<>>
    /\ fcmTokens' = <<>>
    /\ pc' = "findLatest"
    /\ UNCHANGED <<callVars, timerVars, removal, adds, histories, users, now, ticks, is, k, fg, requests>>

\* ItemHistoryFindLatest: an error (no ItemHistory among them) skips the Item.
FindLatest ==
    /\ pc = "findLatest"
    /\ \E failed \in BOOLEAN :
         IF failed \/ ItemHistoryFindLatest(is[k].id) = NoHistory
         THEN /\ Continue("next")
              /\ ev' = [ev EXCEPT !.failures = @ \cup {"findLatest"}]
              /\ merges' = [merges EXCEPT ![is[k].id].unrecorded = @ + 1]
              /\ UNCHANGED lastIH
         ELSE /\ lastIH' = ItemHistoryFindLatest(is[k].id)
              /\ pc' = "insertHistory"
              /\ k' = k
              /\ UNCHANGED <<ev, merges>>
    /\ UNCHANGED <<callVars, timerVars, removal, adds, storeVars, now, ticks, is, ecommerceItem, updatedI, us, notifiedUserIDs,
                   fcmTokens, fg, requests, merged, notifiedFor>>

\* ItemHistoryInsert, whose error is logged, and the decision to notify.
InsertHistory ==
    /\ pc = "insertHistory"
    /\ \E failed \in BOOLEAN :
         /\ histories' = (IF failed THEN histories
                          ELSE ItemHistoryInsert(ItemHistory(is[k].id, ecommerceItem, now)))
         /\ ev' = (IF failed THEN [ev EXCEPT !.failures = @ \cup {"history"}]
                   ELSE [ev EXCEPT !.appended = @ + 1])
         /\ merges' = (IF failed THEN [merges EXCEPT ![is[k].id].unrecorded = @ + 1]
                       ELSE merges)
         /\ Continue(AfterInsert(failed, ecommerceItem, lastIH))
    /\ UNCHANGED <<callVars, timerVars, removal, adds, items, users, now, ticks, is, ecommerceItem, updatedI, lastIH, us,
                   notifiedUserIDs, fcmTokens, fg, requests, merged, notifiedFor>>

\* notify up to the FCMSendRequest: the Users are read and the batch built.
NotifyFind ==
    /\ pc = "notify"
    /\ \E failed \in BOOLEAN :
         IF failed
         THEN /\ Continue("next")
              /\ ev' = [ev EXCEPT !.failures = @ \cup {"subscribers"}]
              /\ UNCHANGED <<us, notifiedUserIDs, fcmTokens>>
         ELSE LET found == UsersDeviceFCMTokensFindByTrackedItem(updatedI.id)
                  b == NotifyBatch(found, updatedI.price, updatedI.stock)
              IN /\ us' = found
                 /\ notifiedUserIDs' = b.ids
                 /\ fcmTokens' = b.tokens
                 /\ ev' = [ev EXCEPT !.subsRead = TRUE, !.removed = {}]
                 /\ Continue(AfterBatch(b.ids))
    /\ UNCHANGED <<callVars, timerVars, removal, adds, merges, storeVars, now, ticks, is, ecommerceItem, updatedI, lastIH, fg, requests,
                   merged, notifiedFor>>

\* FCMSendNotification returns.
Send ==
    /\ pc = "send"
    /\ \E failed \in BOOLEAN :
         /\ ev' = [ev EXCEPT !.fcmCalls = @ + 1,
                             !.fcmFailed = failed,
                             !.failures = IF failed THEN @ \cup {"fcm"} ELSE @,
                             !.duplicate = /\ ~failed
                                           /\ notifiedFor[updatedI.id].price = updatedI.price
                                           /\ \E j \in 1..Len(notifiedUserIDs) :
                                                notifiedUserIDs[j] \in notifiedFor[updatedI.id].ids]
         /\ notifiedFor' = (IF failed THEN notifiedFor
                            ELSE [notifiedFor EXCEPT ![updatedI.id] =
                                    [price |-> updatedI.price,
                                     ids |-> {notifiedUserIDs[j] : j \in 1..Len(notifiedUserIDs)}]])
         /\ Continue(AfterSend(failed))
    /\ UNCHANGED <<callVars, timerVars, removal, adds, merges, storeVars, now, ticks, is, ecommerceItem, updatedI, lastIH, us,
                   notifiedUserIDs, fcmTokens, fg, requests, merged>>

\* UserTrackedItemNotificationCountIncrement; its error and a mismatch of the
\* modified count are logged.
Increment ==
    /\ pc = "increment"
    /\ \E failed \in BOOLEAN :
         /\ users' = (IF failed THEN users
                      ELSE UserTrackedItemNotificationCountIncrement(
                               notifiedUserIDs, updatedI.id, now))
         /\ ev' = [ev EXCEPT !.incCalls = @ + 1,
                             !.incOK = ~failed,
                             !.failures = IF failed THEN @ \cup {"increment"} ELSE @,
                             !.mismatch = /\ ~failed
                                          /\ Cardinality(IncrementMatched(notifiedUserIDs,
                                                                           updatedI.id))
                                               # Len(notifiedUserIDs)]
         /\ Continue(IF failed THEN "next"
                     ELSE AfterIncrement(Cardinality(IncrementMatched(notifiedUserIDs,
                                                                      updatedI.id)),
                                         Len(notifiedUserIDs)))
    /\ UNCHANGED <<callVars, timerVars, removal, adds, merges, items, histories, now, ticks, is, ecommerceItem, updatedI, lastIH, us,
                   notifiedUserIDs, fcmTokens, fg, requests, merged, notifiedFor>>

\* ---------------------------------------------------------------- foreground
NoRequest == [pc |-> "none"]

\* itemCheck up to ItemFindExisting: the provider's answer and the stored Item.
itemCheckFind ==
    /\ fg = NoRequest
    /\ requests < MaxRequests
    /\ requests' = requests + 1
    /\ \E id \in {j \in ItemIDs : Site(j) = "Shopee"}, price \in Prices, stock \in Stocks :
         fg' = [pc |-> "update", i |-> ItemFindExisting(id),
                ecommerceItem |-> Fetched(id, price, stock)]
    /\ UNCHANGED <<callVars, timerVars, removal, adds, merges, storeVars, now, ticks, schedVars, merged, notifiedFor, ev>>

\* itemCheck from i.UpdateWith on: the merged Item replaces the stored one.
itemCheckUpdate ==
    /\ fg # NoRequest
    /\ fg.pc = "update"
    /\ \E failed \in BOOLEAN :
         LET u == UpdateWith(fg.i, fg.ecommerceItem, now)
         IN /\ items' = (IF failed THEN items ELSE ItemUpdate(u, now))
            /\ merged' = (IF failed THEN merged
                          ELSE [merged EXCEPT ![u.id] = @ \cup {u.price}])
            /\ merges' = [merges EXCEPT ![u.id].foreground = @ + 1]
    /\ fg' = NoRequest
    /\ UNCHANGED <<callVars, timerVars, removal, adds, histories, users, now, ticks, schedVars, requests, notifiedFor, ev>>

\* UserTrackedItemRemove when its UpdateOne returned an error: the error is
\* not read; the result is, and it is nil unless the error is a write error
\* of the server, so that res.ModifiedCount panics or is 0.
RemoveFailure == {"error", "panic"}

\* itemRemove of a tracked Item: 200, or, without a document modified, 500;
\* a panic of the handler is recovered by net/http, which answers nothing.
itemRemove ==
    /\ fg = NoRequest
    /\ requests < MaxRequests
    /\ requests' = requests + 1
    /\ \E u \in UserIDs, id \in ItemIDs :
         /\ Matches(users[u].trackedItems, id) # {}
         /\ \E outcome \in {"ok"} \cup RemoveFailure :
              IF outcome = "ok"
              THEN /\ users' = UserTrackedItemRemove(u, id)
                   /\ removal' = [failed |-> FALSE, status |-> 200, panicked |-> FALSE]
                   /\ ev' = [ev EXCEPT !.removed = IF pc \in {"send", "increment"}
                                                    THEN @ \cup {<<u, id>>} ELSE @]
              ELSE /\ removal' = [failed |-> TRUE,
                                  status |-> IF outcome = "panic" THEN 0 ELSE 500,
                                  panicked |-> outcome = "panic"]
                   /\ UNCHANGED <<users, ev>>
    /\ UNCHANGED <<callVars, timerVars, adds, merges, items, histories, now, ticks, schedVars, fg,
                   merged, notifiedFor>>

\* ---------------------------------------------------------------- FetchDataInInterval
\* The sites, in the order their loops are started.
Sites == <<"Shopee", "Tokopedia", "Blibli">>

SiteSet == {Sites[n] : n \in 1..Len(Sites)}

\* The time.Sleep of FetchDataInInterval after it started the n-th loop.
SleepAfter(n) == IF n = 1 THEN SleepTokopedia ELSE IF n = 2 THEN SleepBlibli ELSE 0

\* time.NewTicker(interval), three times, before any loop is started: the
\* first ticks are due one interval later; the channel of a Ticker holds one
\* tick.
NewTicker == [in |-> Interval, c |-> 0, fresh |-> FALSE]

NoLoop == [pc |-> "none", left |-> 0, sleep |-> 0, runs |-> 0]

TimersInit ==
    /\ main = [launched |-> 0, sleep |-> 0]
    /\ tickers = [s \in SiteSet |-> NewTicker]
    /\ loops = [s \in SiteSet |-> NoLoop]
    /\ cancelled = FALSE

otherVars == <<storeVars, now, ticks, schedVars, fg, requests, merged, notifiedFor, ev, merges,
               adds, callVars, removal>>

\* go func() { for range ticker.C ... }(), and the time.Sleep that follows it.
Launch ==
    /\ main.launched < Len(Sites)
    /\ main.sleep = 0
    /\ loops' = [loops EXCEPT ![Sites[main.launched + 1]].pc = "waiting"]
    /\ main' = [launched |-> main.launched + 1, sleep |-> SleepAfter(main.launched + 1)]
    /\ UNCHANGED <<tickers, cancelled, otherVars>>

\* A Ticker's tick is due: it is put in the channel, or dropped when the
\* channel holds one.
TickerFire ==
    \E s \in SiteSet :
        /\ tickers[s].in = 0
        /\ tickers' = [tickers EXCEPT ![s].in = Interval, ![s].c = 1]
        /\ UNCHANGED <<main, loops, cancelled, otherVars>>

CanReceive_Spawns(loop) == loop.pc # "none"

\* for range ticker.C: the loop takes a tick when it is not in fetchData.
CanReceive(loop) == loop.pc = "waiting"

\* rand.Intn(10), in the steps taken.
Jitters == {j \in 0..MaxJitter : j % JitterStep = 0}

\* The time.Sleep calls at the head of the loop body of fetchData.
SleepOfItem(jitter) == ItemSleep + jitter

\* The body of for range ticker.C: ItemsFindWithSite, whose error (the
\* cancelled context among them) skips the tick, and the call of fetchData
\* with the n Items found.
TickerReceive ==
    \E s \in SiteSet :
        /\ CanReceive(loops[s])
        /\ tickers[s].c > 0
        /\ tickers' = [tickers EXCEPT ![s].c = 0, ![s].fresh = TRUE]
        /\ \E n \in 0..MaxBatch, jitter \in Jitters,
              failed \in (IF cancelled THEN {TRUE} ELSE BOOLEAN) :
             loops' = [loops EXCEPT ![s] =
                         IF failed \/ n = 0 THEN @
                         ELSE [pc |-> "sleep", left |-> n, sleep |-> SleepOfItem(jitter),
                               runs |-> @.runs + 1]]
        /\ UNCHANGED <<main, cancelled, otherVars>>

\* fetchData after the time.Sleep: the Item is fetched from the provider and
\* processed; neither call of the providers takes the context.
ItemFetch ==
    \E s \in SiteSet :
        /\ loops[s].pc = "sleep"
        /\ loops[s].sleep = 0
        /\ loops' = [loops EXCEPT ![s].pc = "item"]
        /\ UNCHANGED <<main, tickers, cancelled, otherVars>>

\* fetchData at the end of the loop body: the next Item, or the return to the
\* loop over the ticks.
ItemDone ==
    \E s \in SiteSet :
        /\ loops[s].pc = "item"
        /\ \E jitter \in Jitters :
             loops' = [loops EXCEPT ![s] =
                         IF @.left > 1
                         THEN [@ EXCEPT !.pc = "sleep", !.left = @ - 1,
                                        !.sleep = SleepOfItem(jitter)]
                         ELSE [@ EXCEPT !.pc = "waiting", !.left = 0, !.runs = @ - 1]]
        /\ UNCHANGED <<main, tickers, cancelled, otherVars>>

\* The timers running: the time.Sleep of FetchDataInInterval, the Tickers and
\* the time.Sleep of the loops.
Pending ==
    (IF main.launched < Len(Sites) THEN {main.sleep} ELSE {})
        \cup {tickers[s].in : s \in SiteSet}
        \cup {loops[s].sleep : s \in {x \in SiteSet : loops[x].pc = "sleep"}}

\* Time passes until the next timer is due.
Elapse ==
    /\ \A d \in Pending : d > 0
    /\ \E d \in Pending :
         /\ \A e \in Pending : d <= e
         /\ main' = [main EXCEPT !.sleep = IF @ > 0 THEN @ - d ELSE 0]
         /\ tickers' = [s \in SiteSet |->
                          [tickers[s] EXCEPT !.in = @ - d, !.fresh = FALSE]]
         /\ loops' = [s \in SiteSet |->
                        [loops[s] EXCEPT !.sleep = IF loops[s].pc = "sleep" THEN @ - d ELSE @]]
    /\ UNCHANGED <<cancelled, otherVars>>

\* The context given to FetchDataInInterval is cancelled.
Cancel ==
    /\ ~cancelled
    /\ cancelled' = TRUE
    /\ UNCHANGED <<main, tickers, loops, otherVars>>

\* ---------------------------------------------------------------- itemAdd, itemUpdate
\* The TrackedItem the handlers build from the request.
TrackedItem(id, threshold, enabled) ==
    [itemID |-> id, priceLowerThreshold |-> threshold, notificationEnabled |-> enabled,
     notificationCount |-> 0, notificationCountTotal |-> 0, lastNotifiedAt |-> 0,
     updatedAt |-> 0]

\* The answer of a handler: the HTTP status and, for the checks, why.
Answered(req, status, error) == [req EXCEPT !.pc = "done", !.status = status, !.error = error]

Request(kind, u, id, e, threshold, enabled) ==
    [pc |-> IF kind = "add" THEN "find" ELSE "track", kind |-> kind, user |-> u,
     tis |-> users[u].trackedItems,
     itemID |-> id, ecommerceItem |-> e, i |-> NoItem,
     ti |-> TrackedItem(id, threshold, enabled), status |-> 0, error |-> "none"]

\* itemAdd up to the provider's answer; uc.user is the User the
\* authentication middleware read.
itemAddStart(r) ==
    /\ adds[r] = NoRequest
    /\ \E u \in UserIDs, id \in ItemIDs, price \in {1, MaxPrice} :
         adds' = [adds EXCEPT ![r] =
                     Request("add", u, id, Fetched(id, price, MaxStock), MaxPrice, FALSE)]
    /\ UNCHANGED <<callVars, timerVars, removal, storeVars, now, ticks, schedVars, fg, merged, notifiedFor, ev, merges>>

\* itemAdd as one of several requests in flight.
itemAdd == \E r \in 1..MaxAdds : itemAddStart(r) /\ UNCHANGED requests

\* itemAdd as the one foreground request beside the fetcher.
itemAddAlone ==
    /\ fg = NoRequest
    /\ requests < MaxRequests
    /\ requests' = requests + 1
    /\ itemAddStart(1)

\* itemAdd: ItemFindExisting.
itemAddFind ==
    \E r \in 1..MaxAdds :
        /\ adds[r].pc = "find"
        /\ \E failed \in BOOLEAN :
             adds' = [adds EXCEPT ![r] =
                IF failed THEN Answered(@, 500, "store")
                ELSE [@ EXCEPT !.i = ItemFindExisting(adds[r].itemID),
                               !.pc = IF ItemFindExisting(adds[r].itemID) = NoItem
                                      THEN "insert" ELSE "merge"]]
        /\ UNCHANGED <<callVars, timerVars, removal, storeVars, now, ticks, schedVars, fg, requests, merged,
                       notifiedFor, ev, merges>>

\* itemAdd, mongo.ErrNoDocuments: ItemInsert, then ItemHistoryInsert, whose
\* error is logged.
itemAddInsert ==
    \E r \in 1..MaxAdds :
        /\ adds[r].pc = "insert"
        /\ LET req == adds[r]
               id == req.itemID
               i == NewItem(id, req.ecommerceItem.price, req.ecommerceItem.stock, now)
           IN \E failed \in BOOLEAN, historyFailed \in BOOLEAN :
                IF failed \/ ~ItemInsertAccepted(id)
                THEN /\ adds' = [adds EXCEPT ![r] =
                                    Answered(@, 500, IF failed THEN "store" ELSE "duplicateKey")]
                     /\ UNCHANGED <<items, histories, merged, merges>>
                ELSE /\ items' = [items EXCEPT ![id] = i]
                     /\ histories' = (IF historyFailed THEN histories
                                      ELSE ItemHistoryInsert(ItemHistory(id, req.ecommerceItem, now)))
                     /\ merged' = [merged EXCEPT ![id] = {i.price}]
                     /\ merges' = [merges EXCEPT ![id].inserts = @ + 1,
                                                 ![id].unrecorded =
                                                     IF historyFailed THEN @ + 1 ELSE @]
                     /\ adds' = [adds EXCEPT ![r].i = i, ![r].pc = "track"]
        /\ UNCHANGED <<callVars, timerVars, removal, users, now, ticks, schedVars, fg, requests, notifiedFor, ev>>

\* itemAdd, the Item exists: i.UpdateWith and ItemUpdate, whose error is
\* logged.
itemAddMerge ==
    \E r \in 1..MaxAdds :
        /\ adds[r].pc = "merge"
        /\ LET u == UpdateWith(adds[r].i, adds[r].ecommerceItem, now)
           IN /\ \E failed \in BOOLEAN :
                   /\ items' = (IF failed THEN items ELSE ItemUpdate(u, now))
                   /\ merged' = (IF failed THEN merged
                                 ELSE [merged EXCEPT ![u.id] = @ \cup {u.price}])
              /\ merges' = [merges EXCEPT ![u.id].foreground = @ + 1]
              /\ adds' = [adds EXCEPT ![r].i = u, ![r].pc = "track"]
        /\ UNCHANGED <<callVars, timerVars, removal, histories, users, now, ticks, schedVars, fg, requests,
                       notifiedFor, ev>>

\* itemUpdate up to the decoded request.
itemUpdate ==
    /\ \E r \in 1..MaxAdds :
         /\ adds[r] = NoRequest
         /\ \E u \in UserIDs, id \in ItemIDs :
              adds' = [adds EXCEPT ![r] = Request("update", u, id, NoItem, MaxPrice, FALSE)]
    /\ UNCHANGED <<callVars, timerVars, removal, storeVars, now, ticks, schedVars, fg, requests, merged,
                   notifiedFor, ev, merges>>

\* The handler refuses: itemAdd an Item not tracked by a User that tracks
\* TrackedItemsLimit Items, itemUpdate an Item the User does not track.
Refused(req) ==
    IF req.kind = "add"
    THEN Len(req.tis) >= TrackedItemsLimit /\ Matches(req.tis, req.itemID) = {}
    ELSE Matches(req.tis, req.itemID) = {}

\* The handlers' check on uc.user.TrackedItems, then
\* UserTrackedItemUpdateOrAdd up to its first UpdateOne.
itemTrack ==
    \E r \in 1..MaxAdds :
        /\ adds[r].pc = "track"
        /\ LET req == adds[r]
               tis == users[req.user].trackedItems
           IN IF Refused(req)
              THEN /\ adds' = [adds EXCEPT ![r] =
                                  Answered(@, 422, IF req.kind = "add" THEN "limit"
                                                   ELSE "untracked")]
                   /\ UNCHANGED users
              ELSE \E failed \in BOOLEAN :
                     IF failed
                     THEN /\ adds' = [adds EXCEPT ![r] = Answered(@, 500, "store")]
                          /\ UNCHANGED users
                     ELSE IF Matches(tis, req.itemID) # {}
                          THEN /\ users' = [users EXCEPT ![req.user].trackedItems =
                                                UpdateMatched(@, req.ti, now)]
                               /\ adds' = [adds EXCEPT ![r].pc = "sort"]
                          ELSE /\ adds' = [adds EXCEPT ![r].pc = "push"]
                               /\ UNCHANGED users
        /\ UNCHANGED <<callVars, timerVars, removal, items, histories, now, ticks, schedVars, fg, requests, merged,
                       notifiedFor, ev, merges>>

\* UserTrackedItemUpdateOrAdd, MatchedCount != 0: the second UpdateOne sorts
\* the TrackedItems.
itemTrackSort ==
    \E r \in 1..MaxAdds :
        /\ adds[r].pc = "sort"
        /\ \E failed \in BOOLEAN :
             IF failed
             THEN /\ adds' = [adds EXCEPT ![r] = Answered(@, 500, "store")]
                  /\ UNCHANGED users
             ELSE /\ users' = [users EXCEPT ![adds[r].user].trackedItems = SortByUpdatedAt(@)]
                  /\ adds' = [adds EXCEPT ![r] = Answered(@, 200, "none")]
        /\ UNCHANGED <<callVars, timerVars, removal, items, histories, now, ticks, schedVars, fg, requests, merged,
                       notifiedFor, ev, merges>>

\* UserTrackedItemUpdateOrAdd, MatchedCount = 0: the second UpdateOne pushes
\* the TrackedItem.
itemTrackPush ==
    \E r \in 1..MaxAdds :
        /\ adds[r].pc = "push"
        /\ \E failed \in BOOLEAN :
             IF failed
             THEN /\ adds' = [adds EXCEPT ![r] = Answered(@, 500, "store")]
                  /\ UNCHANGED users
             ELSE /\ users' = [users EXCEPT ![adds[r].user].trackedItems =
                                   PushTrackedItem(@, adds[r].ti, now)]
                  /\ adds' = [adds EXCEPT ![r] = Answered(@, 200, "none")]
        /\ UNCHANGED <<callVars, timerVars, removal, items, histories, now, ticks, schedVars, fg, requests, merged,
                       notifiedFor, ev, merges>>

\* ---------------------------------------------------------------- specification
Token(u, d) == <<u, d>>

\* Users that track every Item, the Items of other sites first, with the same
\* threshold; a User's devices hold a token each, or none does.
UsersWith(hasTokens, enabled) ==
    [u \in UserIDs |->
        [devices |-> IF hasTokens[u] THEN <<Token(u, 1), NoToken, Token(u, 2)>>
                     ELSE <<NoToken>>,
         trackedItems |-> [j \in 1..NumItems |->
                              TrackedItem(NumItems + 1 - j, MaxPrice - 1, enabled[u])]]]

\* The state after the Items were inserted by itemAdd, each with the
\* ItemHistory of its first fetch; first is the first price of the Items of the
\* fetched site.
InitOf(itemDocs, userDocs, t) ==
    /\ items = itemDocs
    /\ histories = [id \in ItemIDs |->
                      IF itemDocs[id] = NoItem THEN <<>>
                      ELSE <<ItemHistory(id, itemDocs[id], 0)>>]
    /\ merged = [id \in ItemIDs |->
                   IF itemDocs[id] = NoItem THEN {} ELSE {itemDocs[id].price}]
    /\ merges = [id \in ItemIDs |->
                   IF itemDocs[id] = NoItem THEN NoMerges
                   ELSE [NoMerges EXCEPT !.inserts = 1]]
    /\ users = userDocs
    /\ now = t
    /\ ticks = 0
    /\ pc = "idle"
    /\ is = <<>>
    /\ k = 0
    /\ ecommerceItem = NoItem
    /\ updatedI = NoItem
    /\ lastIH = NoHistory
    /\ us = <<>>
    /\ notifiedUserIDs = <<>>
    /\ fcmTokens = <<>>
    /\ fg = NoRequest
    /\ requests = 0
    /\ notifiedFor = [id \in ItemIDs |-> NotNotified]
    /\ ev = NoEvents
    /\ adds = [r \in 1..MaxAdds |-> NoRequest]
    /\ TimersInit
    /\ removal = NoRemoval

InitWith(first, userDocs) ==
    InitOf([id \in ItemIDs |->
              NewItem(id, IF Site(id) = "Shopee" THEN first ELSE MaxPrice, MaxStock, 0)],
           userDocs, 0)

NoCall == [price |-> 0]
NoResult == [returned |-> FALSE, value |-> FALSE]

\* Every User has notifications enabled and tokens; any first price.
Init ==
    \E first \in Prices :
        /\ InitWith(first, UsersWith([u \in UserIDs |-> TRUE], [u \in UserIDs |-> TRUE]))
        /\ args = NoCall
        /\ result = NoResult

\* Any Users; the first price is the highest.
NotifyInit ==
    \E hasTokens \in [UserIDs -> BOOLEAN], enabled \in [UserIDs -> BOOLEAN] :
        /\ InitWith(MaxPrice, UsersWith(hasTokens, enabled))
        /\ args = NoCall
        /\ result = NoResult

fetchData ==
    \/ Tick
    \/ FetchFailed
    \/ FetchItem
    \/ FindLatest
    \/ InsertHistory
    \/ NotifyFind
    \/ Send
    \/ Increment

Next ==
    \/ fetchData
    \/ itemCheckFind
    \/ itemCheckUpdate
    \/ itemRemove

NotifyNext ==
    \/ fetchData
    \/ itemRemove

\* As Init, but the last User tracks nothing yet; the first price is the
\* highest.
MergeInit ==
    \E first \in {MaxPrice} :
        /\ InitWith(first, [UsersWith([u \in UserIDs |-> TRUE], [u \in UserIDs |-> TRUE])
                               EXCEPT ![NumUsers].trackedItems = <<>>])
        /\ args = NoCall
        /\ result = NoResult

MergeNext ==
    \/ fetchData
    \/ itemCheckFind
    \/ itemCheckUpdate
    \/ itemAddAlone
    \/ itemAddFind
    \/ itemAddMerge
    \/ itemTrack
    \/ itemTrackSort
    \/ itemTrackPush

\* As Init, but every Item belongs to the fetched site.
BatchInit ==
    /\ InitOf([id \in ItemIDs |->
                 [NewItem(id, MaxPrice, MaxStock, 0) EXCEPT !.site = "Shopee"]],
              UsersWith([u \in UserIDs |-> TRUE], [u \in UserIDs |-> TRUE]), 0)
    /\ args = NoCall
    /\ result = NoResult

FirstTick == ticks = 0 /\ Tick

BatchNext ==
    \/ FirstTick
    \/ FetchFailed
    \/ FetchItem
    \/ FindLatest
    \/ InsertHistory
    \/ NotifyFind
    \/ Send
    \/ Increment

\* Users before concurrent requests: User 1 tracks n other Items, added one
\* after the other, the last one first; the other Users track Item 1 and were
\* notified for it once.
OtherItem(j) == NumItems + j

AddUsers(n) ==
    [u \in UserIDs |->
        [devices |-> <<Token(u, 1)>>,
         trackedItems |->
            IF u = 1
            THEN [j \in 1..n |-> [TrackedItem(OtherItem(n + 1 - j), MaxPrice - 1, TRUE)
                                      EXCEPT !.updatedAt = n + 1 - j]]
            ELSE <<[TrackedItem(1, MaxPrice - 1, TRUE) EXCEPT !.notificationCount = 1,
                                                              !.notificationCountTotal = 1,
                                                              !.lastNotifiedAt = 1,
                                                              !.updatedAt = 1]>>]]

\* Item 1 is stored, with the ItemHistory of its first fetch; the other Items
\* are not stored yet.
AddInit ==
    /\ \E n \in {0, TrackedItemsLimit - 1, TrackedItemsLimit} :
         InitOf([id \in ItemIDs |->
                   IF id = 1 THEN NewItem(id, MaxPrice, MaxStock, 0) ELSE NoItem],
                AddUsers(n), TrackedItemsLimit + 1)
    /\ args = NoCall
    /\ result = NoResult

AddNext ==
    \/ itemAdd
    \/ itemAddFind
    \/ itemAddInsert
    \/ itemAddMerge
    \/ itemUpdate
    \/ itemTrack
    \/ itemTrackSort
    \/ itemTrackPush
    \/ itemRemove

\* The Items of the fetched site are stored and tracked by every User; the
\* other Items are not stored yet.
RefreshInit ==
    /\ InitOf([id \in ItemIDs |->
                 IF Site(id) = "Shopee" THEN NewItem(id, MaxPrice, MaxStock, 0) ELSE NoItem],
              [u \in UserIDs |->
                 [devices |-> <<Token(u, 1)>>,
                  trackedItems |-> <<TrackedItem(1, MaxPrice - 1, TRUE)>>]], 0)
    /\ args = NoCall
    /\ result = NoResult

RefreshNext ==
    \/ FirstTick
    \/ FetchFailed
    \/ FetchItem
    \/ FindLatest
    \/ InsertHistory
    \/ NotifyFind
    \/ Send
    \/ Increment
    \/ itemAddAlone
    \/ itemAddFind
    \/ itemAddInsert
    \/ itemAddMerge
    \/ itemTrack
    \/ itemTrackSort
    \/ itemTrackPush

TimerNext ==
    \/ Launch
    \/ TickerFire
    \/ TickerReceive
    \/ ItemFetch
    \/ ItemDone
    \/ Elapse
    \/ Cancel

\* A call of shouldNotify on any TrackedItem, price and stock.
EligibilityInit ==
    /\ InitWith(MaxPrice, UsersWith([u \in UserIDs |-> TRUE], [u \in UserIDs |-> TRUE]))
    /\ \E enabled \in BOOLEAN, threshold \in Thresholds, count \in 0..(NotificationCountCap + 1),
          price \in Prices, stock \in -1..MaxStock :
         args = [ti |-> [TrackedItem(1, threshold, enabled) EXCEPT
                            !.notificationCount = count,
                            !.notificationCountTotal = count],
                 price |-> price, stock |-> stock]
    /\ result = NoResult

\* A call of Item.UpdateWith on any stored Item and any fetched Item.
MergeCallInit ==
    /\ InitWith(MaxPrice, UsersWith([u \in UserIDs |-> TRUE], [u \in UserIDs |-> TRUE]))
    /\ \E price \in Prices, lowest \in Prices, highest \in Prices, stock \in Stocks,
          newPrice \in Prices, newStock \in Stocks :
         /\ lowest <= price
         /\ price <= highest
         /\ args = [i |-> [NewItem(1, price, stock, 0) EXCEPT !.lowest = lowest,
                                                              !.highest = highest],
                    new |-> Fetched(1, newPrice, newStock)]
    /\ result = NoResult

\* i.UpdateWith(new) returns, time.Now() being later than every time in i.
MergeCall ==
    /\ result = NoResult
    /\ now' = now + 1
    /\ result' = [returned |-> TRUE, value |-> UpdateWith(args.i, args.new, now')]
    /\ UNCHANGED <<timerVars, removal, storeVars, ticks, schedVars, fg, requests, merged, notifiedFor,
                   ev, merges, adds, args>>

Evaluate ==
    /\ result = NoResult
    /\ result' = [returned |-> TRUE, value |-> shouldNotify(args.ti, args.price, args.stock)]
    /\ UNCHANGED <<timerVars, removal, storeVars, now, ticks, schedVars, fg, requests, merged,
                   notifiedFor, ev, merges, adds, args>>

\* The fetcher of one site with the foreground item handlers.
Spec == Init /\ [][Next]_vars

\* The fetcher of one site over any Users, with Users removing TrackedItems.
NotifySpec == NotifyInit /\ [][NotifyNext]_vars

\* The fetcher of one site with one itemCheck or itemAdd request.
MergeSpec == MergeInit /\ [][MergeNext]_vars

\* The fetcher of a site with several Items, in its first tick.
BatchSpec == BatchInit /\ [][BatchNext]_vars

\* The first tick of the fetcher of one site with one itemAdd request, of a
\* stored Item or not.
RefreshSpec == RefreshInit /\ [][RefreshNext]_vars

\* The Tickers and the loops of the three sites.
TimerSpec == BatchInit /\ [][TimerNext]_vars

\* The same, where time passes, the Tickers run and every goroutine goes on.
TimerFairness ==
    /\ WF_vars(Launch)
    /\ WF_vars(TickerFire)
    /\ WF_vars(TickerReceive)
    /\ WF_vars(ItemFetch)
    /\ WF_vars(ItemDone)
    /\ WF_vars(Elapse)

TimerLiveSpec == BatchInit /\ [][TimerNext]_vars /\ TimerFairness

\* Concurrent itemAdd, itemUpdate and itemRemove requests.
AddSpec == AddInit /\ [][AddNext]_vars

\* Item.UpdateWith alone.
MergeCallSpec == MergeCallInit /\ [][MergeCall]_vars

\* shouldNotify alone.
EligibilitySpec == EligibilityInit /\ [][Evaluate]_vars

\* ---------------------------------------------------------------- properties
ExtremaHold(i) == i.lowest <= i.price /\ i.price <= i.highest

\* C1: an Item inserted with both extrema at its first price and changed only
\* by UpdateWith has priceHistoryLowest <= price <= priceHistoryHighest after
\* each merge: in the store, and in the merged Item fetchData holds.
C1_MergeExtrema ==
    /\ \A id \in ItemIDs : ExtremaHold(items[id])
    /\ updatedI # NoItem => ExtremaHold(updatedI)

\* Two merges after the first price have left the price strictly between the
\* two extrema.
C1_Witness ==
    \E id \in ItemIDs :
        /\ items[id].lowest < items[id].price
        /\ items[id].price < items[id].highest
        /\ Cardinality(merged[id]) = 3

\* C2: when the fetcher and a foreground request interleave on an Item, the
\* stored extrema bound every price merged into the stored Item.
C2_NoLostUpdate ==
    \A id \in ItemIDs : \A p \in merged[id] :
        items[id].lowest <= p /\ p <= items[id].highest

\* C3: shouldNotify(ti, price, stock) is true exactly when
\* ti.NotificationEnabled and price <= ti.PriceLowerThreshold and stock > 0,
\* whatever the other fields of ti are.
C3_ShouldNotify ==
    result.returned =>
        (result.value <=> /\ args.ti.notificationEnabled
                           /\ args.price <= args.ti.priceLowerThreshold
                           /\ args.stock > 0)

\* A price at the threshold is eligible, also after earlier notifications.
C3_Witness ==
    /\ result.returned /\ result.value
    /\ args.price = args.ti.priceLowerThreshold
    /\ args.ti.notificationCount > 0

\* notify was called for the Item being processed, or has read the Users or
\* called FCMSendNotification for the Item processed last.
Notifying == pc \in {"notify", "send", "increment"} \/ ev.subsRead \/ ev.fcmCalls > 0

\* C4 as claimed: the Users are read and a notification is dispatched only
\* when the fetched price differs from the price of the Item it was merged
\* into.
C4_MergeGate == Notifying => ev.mergeChanged

\* C4 as amended: the Users are read and a notification is dispatched only
\* when the fetched price differs from the price of the latest ItemHistory
\* read before this fetch's record is inserted; with equal prices nothing is
\* read or dispatched.
C4_HistoryGate ==
    Notifying => lastIH # NoHistory /\ ecommerceItem.price # lastIH.price

\* A notification was dispatched for a fetch that did not change the price of
\* the Item it was merged into.
C4_Witness ==
    /\ ev.subsRead
    /\ ev.fcmCalls = 1
    /\ ~ev.mergeChanged
    /\ ecommerceItem.price # lastIH.price

\* C5: for a fetched stock of 0, notify is not called: the Users are not read
\* and nothing is dispatched for the Item in that tick.
C5_StockGate ==
    (ecommerceItem # NoItem /\ ecommerceItem.stock = 0) => ~Notifying

\* The processing of a fetch with stock 0 and a price below the latest
\* ItemHistory's has ended.
C5_Witness ==
    /\ pc \in {"idle", "fetch"}
    /\ ecommerceItem # NoItem
    /\ ecommerceItem.stock = 0
    /\ lastIH # NoHistory
    /\ ecommerceItem.price < lastIH.price
    /\ Len(histories[is[k].id]) > 1

\* C6: no User is sent a second notification for a price of an Item it was
\* sent one for, as long as the fetcher has fetched no other price of the Item
\* since.
C6_NoDuplicate == ~ev.duplicate


\* ---------------------------------------------------------------- notify: the properties
IDs(seq) == {seq[j] : j \in 1..Len(seq)}

\* The Users of us of whom a device's token is in the batch.
InBatch == {us[j].id : j \in {n \in 1..Len(us) :
                \E d \in 1..Len(us[n].devices) :
                    us[n].devices[d] # NoToken /\ us[n].devices[d] \in IDs(fcmTokens)}}

\* The counters of userDocs[u]'s TrackedItems.
Counters(userDocs, u) ==
    {[itemID |-> ti.itemID, notificationCount |-> ti.notificationCount,
      notificationCountTotal |-> ti.notificationCountTotal,
      lastNotifiedAt |-> ti.lastNotifiedAt] :
        ti \in IDs(userDocs[u].trackedItems)}

\* before -> after is the increment of one TrackedItem at time t.
Incremented(before, after, t) ==
    /\ after.notificationCount = before.notificationCount + 1
    /\ after.notificationCountTotal = before.notificationCountTotal + 1
    /\ after.lastNotifiedAt = t
    /\ after.itemID = before.itemID
    /\ after.priceLowerThreshold = before.priceLowerThreshold
    /\ after.notificationEnabled = before.notificationEnabled

\* C7: UserTrackedItemNotificationCountIncrement is called only after
\* FCMSendNotification returned without error, once per dispatch, with exactly
\* the IDs of the Users whose tokens are in the batch; when it succeeds, the
\* TrackedItem of the Item of each of these Users gets notificationCount + 1,
\* notificationCountTotal + 1 and lastNotifiedAt, and no other TrackedItem and
\* no other User changes; when it fails, no User changes.
C7_IncrementNotified ==
    [][ev'.incCalls = ev.incCalls + 1 =>
         /\ ev.incCalls = 0
         /\ ev.fcmCalls = 1
         /\ ~ev.fcmFailed
         /\ IDs(notifiedUserIDs) = InBatch
         /\ ~ev'.incOK => users' = users
         /\ ev'.incOK =>
              \A u \in UserIDs :
                 /\ users'[u].devices = users[u].devices
                 /\ Len(users'[u].trackedItems) = Len(users[u].trackedItems)
                 /\ \A j \in 1..Len(users[u].trackedItems) :
                      IF u \in InBatch /\ users[u].trackedItems[j].itemID = updatedI.id
                      THEN Incremented(users[u].trackedItems[j], users'[u].trackedItems[j], now)
                      ELSE users'[u].trackedItems[j] = users[u].trackedItems[j]]_vars

\* C7's case: the increment succeeded for a batch that leaves out a User that
\* tracks the Item.
C7_Witness ==
    /\ ev.incCalls = 1
    /\ ev.incOK
    /\ Len(notifiedUserIDs) > 0
    /\ Len(notifiedUserIDs) < Len(us)
    /\ \E u \in IDs(notifiedUserIDs) :
         \E ti \in IDs(users[u].trackedItems) :
            ti.itemID = updatedI.id /\ ti.notificationCount = 1

\* C8: from the step in which FCMSendNotification returns an error until the
\* fetcher goes on to its next Item, the increment is not called and no
\* notificationCount, notificationCountTotal or lastNotifiedAt of any User
\* changes.
C8_FailedDispatch ==
    [][ev'.fcmFailed =>
         /\ ev'.incCalls = 0
         /\ pc' # "increment"
         /\ \A u \in UserIDs : Counters(users', u) \subseteq Counters(users, u)]_vars

\* C8's case: the dispatch failed and the fetcher went on.
C8_Witness ==
    /\ ev.fcmFailed
    /\ ev.fcmCalls = 1
    /\ pc \in {"idle", "fetch"}
    /\ Len(notifiedUserIDs) > 0

\* An entry of us whose TrackedItem makes it eligible for updatedI.
EligibleFound(j) ==
    /\ Len(us[j].trackedItems) > 0
    /\ us[j].trackedItems[1].notificationEnabled
    /\ updatedI.price <= us[j].trackedItems[1].priceLowerThreshold
    /\ updatedI.stock > 0

Tokenless(j) == \A d \in 1..Len(us[j].devices) : us[j].devices[d] = NoToken

\* C9: an eligible User of us whose devices all have an empty token is not in
\* notifiedUserIDs, and the increment changes nothing of that User.
C9_TokenlessExcluded ==
    /\ [](\A j \in 1..Len(us) :
             EligibleFound(j) /\ Tokenless(j) => us[j].id \notin IDs(notifiedUserIDs))
    /\ [][ev'.incCalls = ev.incCalls + 1 =>
            \A j \in 1..Len(us) :
               EligibleFound(j) /\ Tokenless(j) => users'[us[j].id] = users[us[j].id]]_vars

\* C9's case: the increment succeeded for a batch while an eligible User has
\* no token.
C9_Witness ==
    /\ ev.incCalls = 1
    /\ ev.incOK
    /\ \E j \in 1..Len(us) : EligibleFound(j) /\ Tokenless(j)

\* C10: in the processing of one Item FCMSendNotification is called at most
\* once, and the batch of the call holds every non-empty token of every device
\* of every eligible User of us.
C10_FullBatch ==
    /\ ev.fcmCalls <= 1
    /\ (pc = "send" \/ ev.fcmCalls = 1) =>
          \A j \in 1..Len(us) :
             EligibleFound(j) =>
                \A d \in 1..Len(us[j].devices) :
                   us[j].devices[d] # NoToken => us[j].devices[d] \in IDs(fcmTokens)

\* C10's case: one call with the tokens of several devices of several Users,
\* an ineligible User left out.
C10_Witness ==
    /\ ev.fcmCalls = 1
    /\ Len(fcmTokens) > 2
    /\ Len(notifiedUserIDs) > 1

\* C11: a TrackedItem whose notificationCount has passed the cap is not
\* eligible: shouldNotify returns false for it.
C11_CountCap ==
    (result.returned /\ args.ti.notificationCount > NotificationCountCap) => ~result.value

\* C12: when the processing of an Item whose provider fetch succeeded has
\* ended, one ItemHistory was appended for it (unless the insert itself
\* returned an error); and for a fetch whose price and stock are those of the
\* latest ItemHistory, notify is not called.
C12_OneHistoryPerFetch ==
    /\ (pc \in {"idle", "fetch"} /\ ev.fetched /\ "history" \notin ev.failures)
          => ev.appended = 1
    /\ (ev.fetched /\ lastIH # NoHistory /\ ecommerceItem.price = lastIH.price
          /\ ecommerceItem.stock = lastIH.stock) => ~Notifying

C14_RacingAddsSucceed ==
    \A r \in 1..MaxAdds :
        (adds[r].pc = "done" /\ adds[r].kind = "add" /\ adds[r].error \notin {"store", "limit"})
            => /\ adds[r].status = 200
               /\ items[adds[r].itemID] # NoItem

\* C15: a User's trackedItems holds at most one TrackedItem per itemID.
C15_OnePerItem ==
    \A u \in UserIDs : \A id \in ItemIDs :
        Cardinality(Matches(users[u].trackedItems, id)) <= 1

\* The values of a field of the TrackedItems of Item id of User u.
FieldOf(userDocs, u, id, field) ==
    {userDocs[u].trackedItems[j][field] : j \in Matches(userDocs[u].trackedItems, id)}

\* f is unchanged, but for a TrackedItem that is new and has initial there.
Kept(userDocs, after, u, id, field, initial) ==
    FieldOf(after, u, id, field) \subseteq
        (IF Matches(userDocs[u].trackedItems, id) = {} THEN {initial}
         ELSE FieldOf(userDocs, u, id, field))

\* C16 as claimed: a step of an itemAdd or itemUpdate request leaves the
\* notificationCount and the lastNotifiedAt of every TrackedItem as they are.
C16_RequestsKeepCounters ==
    [][adds' # adds =>
         \A u \in UserIDs : \A id \in ItemIDs :
            /\ Kept(users, users', u, id, "notificationCount", 0)
            /\ Kept(users, users', u, id, "lastNotifiedAt", 0)]_vars

\* C16, amended: a step of an itemAdd or itemUpdate request leaves the
\* lastNotifiedAt and the notificationCountTotal of every TrackedItem as they
\* are, and the notificationCount as it is or 0.
C16_RequestsResetCount ==
    [][adds' # adds =>
         \A u \in UserIDs : \A id \in ItemIDs :
            /\ Kept(users, users', u, id, "lastNotifiedAt", 0)
            /\ Kept(users, users', u, id, "notificationCountTotal", 0)
            /\ FieldOf(users', u, id, "notificationCount") \subseteq
                  FieldOf(users, u, id, "notificationCount") \cup {0}]_vars

\* An itemAdd or itemUpdate for an Item its User was notified for was
\* answered 200: the count is 0 and the rest is kept.
C16_Witness ==
    \E r \in 1..MaxAdds :
        /\ adds[r].pc = "done"
        /\ adds[r].status = 200
        /\ \E j \in Matches(users[adds[r].user].trackedItems, adds[r].itemID) :
             LET ti == users[adds[r].user].trackedItems[j]
             IN /\ ti.notificationCount = 0
                /\ ti.notificationCountTotal = 1
                /\ ti.lastNotifiedAt = 1
                /\ ti.notificationEnabled = FALSE

\* C17: no User's trackedItems holds more than TrackedItemsSlice entries.
C17_AtMost25 ==
    \A u \in UserIDs : Len(users[u].trackedItems) <= TrackedItemsSlice

\* Two itemAdd of a User that tracked 24 Items, each for an Item not tracked,
\* were both answered 200, and the User tracks 25 Items.
C17_Witness ==
    /\ \A r \in 1..2 :
         /\ adds[r].pc = "done"
         /\ adds[r].kind = "add"
         /\ adds[r].status = 200
         /\ adds[r].user = adds[1].user
         /\ Len(adds[r].tis) = 24
    /\ adds[1].itemID # adds[2].itemID
    /\ Len(users[adds[1].user].trackedItems) = 25

\* ---------------------------------------------------------------- the errors of one Item
\* C18: a step of the loop over the Items of a tick, whatever error it logs,
\* stays at the Item, or goes on to the fetch of the next Item of the batch,
\* or ends the tick after the last Item: no Item of the batch is left out.
C18_TickNotAborted ==
    [][pc # "idle" =>
         \/ k' = k /\ pc' \notin {"idle", "fetch"}
         \/ k < Len(is) /\ k' = k + 1 /\ pc' = "fetch"
         \/ k = Len(is) /\ k' = k /\ pc' = "idle"]_vars

\* The tick ended with the last Item of a batch of several, fetched after an
\* error was logged for the Item before it.
C18_Witness ==
    /\ pc = "idle"
    /\ Len(is) > 1
    /\ k = Len(is)
    /\ ev.fetched
    /\ ev.before # {}

\* C19: when ItemHistoryInsert fails for an Item whose fetched price is other
\* than the latest ItemHistory's and whose stock is not 0, notify is called
\* for the Item all the same, in the same iteration of the same tick.
C19_HistoryFailureNotifies ==
    [][(/\ pc = "insertHistory"
        /\ "history" \in ev'.failures
        /\ ecommerceItem.price # lastIH.price
        /\ ecommerceItem.stock # 0)
          => /\ pc' = "notify"
             /\ k' = k
             /\ ticks' = ticks]_vars

\* The insert of the ItemHistory failed, and the Users of the Item were read,
\* the notification sent and the counters incremented.
C19_Witness ==
    /\ "history" \in ev.failures
    /\ ev.subsRead
    /\ ev.fcmCalls = 1
    /\ ~ev.fcmFailed
    /\ ev.incOK

\* C20: when the increment updated another number of Users than the number
\* of IDs it was given, no error is logged for the Item, the Users are left
\* as the increment wrote them, the increment is not called again, and the
\* loop goes on to the next Item (or ends the tick after the last one).
C20_MismatchLogged ==
    [][(pc = "increment" /\ ev'.mismatch)
          => /\ ev'.failures = ev.failures
             /\ users' = UserTrackedItemNotificationCountIncrement(notifiedUserIDs,
                                                                   updatedI.id, now)
             /\ ev'.incCalls = 1
             /\ \/ k < Len(is) /\ k' = k + 1 /\ pc' = "fetch"
                \/ k = Len(is) /\ k' = k /\ pc' = "idle"]_vars

\* The increment was given more IDs than it updated Users, which it did
\* update, and the iteration is over.
C20_Witness ==
    /\ ev.mismatch
    /\ ev.incCalls = 1
    /\ pc \in {"idle", "fetch"}
    /\ Len(notifiedUserIDs) > Cardinality(IncrementMatched(notifiedUserIDs, updatedI.id))
    /\ \E u \in IncrementMatched(notifiedUserIDs, updatedI.id) :
          users[u].trackedItems[FirstMatch(users[u].trackedItems, updatedI.id)].lastNotifiedAt = now

\* The TrackedItems of Item id removed since the Users of the Item were read.
RemovedSince(id) == {p \in ev.removed : p[2] = id}

\* C21: between the read of the Users of an Item and the increment, and after
\* it, when no TrackedItem of the Item was removed since the read, the
\* increment updates as many Users as the IDs it is given, and a mismatch was
\* logged only when one was removed.
C21_MismatchOnlyByRace ==
    /\ (pc \in {"send", "increment"} /\ RemovedSince(updatedI.id) = {})
          => Cardinality(IncrementMatched(notifiedUserIDs, updatedI.id)) = Len(notifiedUserIDs)
    /\ ev.mismatch => RemovedSince(updatedI.id) # {}

\* The increment updated every User it was given, while a TrackedItem of
\* another Item was removed since the read.
C21_Witness ==
    /\ ev.incOK
    /\ ~ev.mismatch
    /\ Len(notifiedUserIDs) > 1
    /\ ev.removed # {}
    /\ RemovedSince(updatedI.id) = {}

\* The identities of the stored Items.
Stored(itemDocs) == {id \in ItemIDs : itemDocs[id] # NoItem}

\* C22: a step of the fetcher leaves the set of stored Items as it is, and
\* every stored Item with its _id and its site.
C22_NoItemCreated ==
    [][<<pc, k, ticks>>' # <<pc, k, ticks>> =>
         /\ Stored(items') = Stored(items)
         /\ \A id \in Stored(items) :
              /\ items'[id].id = id
              /\ items'[id].site = items[id].site]_vars

\* The fetcher replaced a stored Item with a new price, an itemAdd inserted
\* another Item meanwhile, and no further Item is stored.
C22_Witness ==
    /\ ticks = 1
    /\ pc = "idle"
    /\ merges[1].fetcher = 1
    /\ items[1].price # MaxPrice
    /\ items[1].updatedAt = now
    /\ merges[2].inserts = 1
    /\ Stored(items) = {1, 2}

\* ---------------------------------------------------------------- the timers and the loops
\* C23: once the context is cancelled, from some time on no Ticker puts a
\* tick in its channel and no loop is in fetchData: the ticks and the fetches
\* from the providers have stopped.
C23_ShutdownStops ==
    cancelled ~> [](\A s \in SiteSet : tickers[s].c = 0 /\ loops[s].pc \in {"none", "waiting"})

\* C24: when the tick of the Shopee Ticker is due, that of the Tokopedia
\* Ticker is due SleepTokopedia seconds later, and when that one is due, the
\* tick of the Blibli Ticker is due SleepBlibli seconds later; no two loops
\* take a tick and start fetchData at the same instant.
C24_PhaseOffsets ==
    /\ tickers["Shopee"].in = 0 => tickers["Tokopedia"].in = SleepTokopedia
    /\ tickers["Tokopedia"].in = 0 => tickers["Blibli"].in = SleepBlibli
    /\ \A s1, s2 \in SiteSet :
          (/\ tickers[s1].fresh /\ loops[s1].runs > 0
           /\ tickers[s2].fresh /\ loops[s2].runs > 0) => s1 = s2

\* C25: no site has more than one run of fetchData in progress, a site is at
\* an Item only within its run, and that is one Item at a time.
C25_SerialWithinSite ==
    \A s \in SiteSet :
        /\ loops[s].runs <= 1
        /\ loops[s].runs = 1 <=> loops[s].pc \in {"sleep", "item"}
        /\ loops[s].runs = 1 <=> loops[s].left > 0

\* Two sites are each at an Item at the same time, one of them at the last
\* but one of its run while the next tick of its Ticker waits in the channel.
C25_Witness ==
    \E s1, s2 \in SiteSet :
        /\ s1 # s2
        /\ loops[s1].pc = "item"
        /\ loops[s2].pc = "item"
        /\ loops[s1].left = 2
        /\ tickers[s1].c = 1

\* ---------------------------------------------------------------- Item.UpdateWith
Max(a, b) == IF a >= b THEN a ELSE b

Min(a, b) == IF a <= b THEN a ELSE b

\* The reference merge of the fetched Item new into i at time t; previous,
\* of which the reference says nothing, is taken from merged.
ReferenceMerge(i, new, t, merged_) ==
    [id |-> i.id,
     site |-> i.site,
     price |-> new.price,
     changedAt |-> IF new.price # i.price THEN t ELSE i.changedAt,
     highest |-> IF new.price # i.price THEN Max(i.highest, new.price) ELSE i.highest,
     lowest |-> IF new.price # i.price THEN Min(i.lowest, new.price) ELSE i.lowest,
     stock |-> new.stock,
     updatedAt |-> t,
     previous |-> merged_.previous]

\* C26: what i.UpdateWith(new) leaves in i is the reference merge of new
\* into i.
C26_ReferenceMerge ==
    result.returned => result.value = ReferenceMerge(args.i, args.new, now, result.value)

\* A call with a price above the highest and another stock has returned.
C26_Witness ==
    /\ result.returned
    /\ args.new.price > args.i.highest
    /\ args.new.stock # args.i.stock
    /\ result.value.highest = args.new.price
    /\ result.value.lowest = args.i.lowest
    /\ result.value.changedAt = now
    /\ result.value.stock = args.new.stock

\* ---------------------------------------------------------------- the notification
\* C27: notify is called, and the notification "The price of an item has
\* dropped!" sent, only for a fetched price below the price the Item had
\* before, the latest ItemHistory's.
C27_OnlyForDecrease ==
    (pc \in {"notify", "send", "increment"} \/ ev.fcmCalls > 0)
        => ecommerceItem.price < lastIH.price

\* ---------------------------------------------------------------- the counters
\* The TrackedItems of every User are within 0 <= notificationCount <=
\* notificationCountTotal.
CountersOrdered(userDocs) ==
    \A u \in UserIDs : \A j \in 1..Len(userDocs[u].trackedItems) :
        /\ 0 <= userDocs[u].trackedItems[j].notificationCount
        /\ userDocs[u].trackedItems[j].notificationCount
              <= userDocs[u].trackedItems[j].notificationCountTotal

\* The notificationCountTotal of the TrackedItem of Item id of User u.
TotalOf(userDocs, u, id) ==
    userDocs[u].trackedItems[FirstMatch(userDocs[u].trackedItems, id)].notificationCountTotal

\* C28: every TrackedItem has 0 <= notificationCount <= notificationCountTotal,
\* and no step lowers the notificationCountTotal of a TrackedItem that is
\* there before and after it.
C28_CountersOrdered ==
    /\ []CountersOrdered(users)
    /\ [][\A u \in UserIDs : \A id \in ItemIDs :
             (Matches(users[u].trackedItems, id) # {} /\ Matches(users'[u].trackedItems, id) # {})
                => TotalOf(users', u, id) >= TotalOf(users, u, id)]_vars

\* A User was notified for an Item, added the Item again, which reset the
\* count, and was notified for it once more.
C28_Witness ==
    /\ adds[1].pc = "done"
    /\ adds[1].status = 200
    /\ Matches(users[adds[1].user].trackedItems, adds[1].itemID) # {}
    /\ LET ti == users[adds[1].user].trackedItems[
                     FirstMatch(users[adds[1].user].trackedItems, adds[1].itemID)]
       IN /\ ti.notificationCount = 1
          /\ ti.notificationCountTotal = 2

\* ---------------------------------------------------------------- the empty batch
\* C29: FCMSendNotification is called with at least one token and the
\* increment with at least one User ID; after the Users of an Item were read
\* and none of them is to be notified, neither is called for the Item.
C29_NoEmptyBatch ==
    /\ pc = "send" => (Len(fcmTokens) > 0 /\ Len(notifiedUserIDs) > 0)
    /\ pc = "increment" => Len(notifiedUserIDs) > 0
    /\ ev.fcmCalls > 0 => Len(fcmTokens) > 0
    /\ ev.incCalls > 0 => Len(notifiedUserIDs) > 0
    /\ (ev.subsRead /\ Len(notifiedUserIDs) = 0)
          => (pc \notin {"send", "increment"} /\ ev.fcmCalls = 0 /\ ev.incCalls = 0)

\* The Users of the Item were read, one of them eligible but without a token
\* and none to be notified, and notify has returned.
C29_Witness ==
    /\ ev.subsRead
    /\ pc \in {"idle", "fetch"}
    /\ Len(notifiedUserIDs) = 0
    /\ Len(fcmTokens) = 0
    /\ ev.fcmCalls = 0
    /\ ev.incCalls = 0
    /\ \E j \in 1..Len(us) :
          /\ Eligible(us[j], updatedI.price, updatedI.stock)
          /\ Len(Tokens(us[j].devices)) = 0

\* ---------------------------------------------------------------- itemRemove
\* C30: an itemRemove whose store update failed was answered 500 by the
\* handler, which did not panic.
C30_RemoveFailureReturns ==
    removal.failed => (removal.status = 500 /\ ~removal.panicked)
====
